---- MODULE Spec2Model ----
(***************************************************************************)
(* A model of the Python binding layer of the FOVE C API                   *)
(* (src/src/bindings.cpp).  The host language calls a binding; the binding *)
(* calls the native library, which is the environment: what it returns,    *)
(* what it writes through the pointers it is handed and how often it       *)
(* invokes a callback are chosen nondeterministically.  One binding call   *)
(* is one action (a call is synchronous and runs to completion).           *)
(***************************************************************************)
EXTENDS Integers, Sequences, FiniteSets, TLC

\* ---------------------------------------------------------------- bounds
\* Largest native handle value (0 is the null pointer).
MaxHandle == 2
\* Largest abstract content token of a Vec3 / Pose / config key.
MaxToken == 1
\* Largest seed of a native struct (each seed gives every field its own value).
MaxSeed == 2
\* Largest number of licenses the native library reports.
MaxLicenses == 2
\* Largest number of times the native library invokes a callback in one call.
MaxCallbacks == 2
\* Largest seed of a C string handed to a callback.
MaxCallbackSeed == 1
\* Highest bit of Fove_ClientCapabilities that is modelled.
MaxCapabilityBit == 1
\* Largest layerCount passed to Compositor_submit.
MaxLayerCount == 2
\* Largest component of a vector or quaternion, and largest scalar factor.
MaxComponent == 1
\* Largest number of elements of a buffer object that are set at a time.
MaxMarks == 2

VARIABLES
    call,         \* the binding call the host made last: [fn, args]
    nativeCalls,  \* the native calls that binding call made, in order
    ret,          \* the value that binding call returned to the host
    heap,         \* the host objects handed to the bindings, by name
    before,       \* heap as it was when that binding call was made
    registry,     \* the capabilities the native library holds for this client
    registryBefore \* registry as it was when that binding call was made

vars == <<call, nativeCalls, ret, heap, before, registry, registryBefore>>

\* ------------------------------------------------------------ error codes
\* A few of the values of Fove_ErrorCode; None is the success code.
ErrorCodes == {"None", "Connect_NotConnected", "API_NotRegistered", "Data_NoUpdate"}

\* --------------------------------------------------------------- wrappers
\* Obj<T>: a host object holding one value `val` (here heap[o]).
Handles == 0..MaxHandle
Tokens == 0..MaxToken
HandleObjs == {"headset", "compositor"}      \* Obj<Fove_Headset*>, Obj<Fove_Compositor*>
BoolObjs == {"bool1", "bool2"}               \* Obj<bool>
StructObjs == {"vec3", "pose"}               \* Fove_Vec3, Fove_Pose (contents abstracted to a token)
\* "error": a Fove_ErrorCode object; "string": Obj<std::string>;
\* "calib": a CalibrationData; "versions": a Versions (Python_Versions);
\* "hwinfo": a HeadsetHardwareInfo (Python_HeadsetHardwareInfo);
\* "collider": an ObjectCollider (Fove_ObjectCollider);
\* "submitInfo": a CompositorLayerSubmitInfo;
\* "q1", "q2": two Quaternion objects, as (x, y, z, w);
\* "buffer": an object of a class with py::buffer_protocol(), as its bytes.
ObjIds == HandleObjs \cup BoolObjs \cup StructObjs
              \cup {"error", "string", "calib", "versions", "hwinfo", "collider",
                    "submitInfo", "q1", "q2", "buffer"}

\* An argument as the host passes it: a plain value, or a reference to a host
\* object (for a handle wrapper, `v` is the handle it holds at the call).
ByVal(x) == [k |-> "val", id |-> "", v |-> x]
ByRef(o) == [k |-> "obj", id |-> o, v |-> IF o \in HandleObjs THEN heap[o] ELSE 0]
\* An argument as the native function receives it.
\* Obj<T>::operator T&(): the wrapped value itself.
Deref(o) == [k |-> "val", id |-> "", v |-> heap[o]]
\* Obj<T>::operator T*() and `&out`: the address of the host object's storage.
Ptr(o) == [k |-> "ptr", id |-> o, v |-> 0]

\* The body of a thin wrapper, `return fove_f(args...);`: one native call,
\* whose result `code` is the wrapper's result.
ForwardDropsCode(fn, nargs, code) ==
    [calls |-> << [fn |-> fn, args |-> nargs, ret |-> code] >>,
     ret |-> "None"]
Forward(fn, nargs, code) ==
    [calls |-> << [fn |-> fn, args |-> nargs, ret |-> code] >>,
     ret |-> code]

\* A struct (Fove_Vec3, Fove_Pose) once the native library has filled it in;
\* a default-constructed one is 0.
Filled == {1}

\* What the native library does with an out-pointer: it may store one of
\* the values `xs` into the object `o` it points to, or leave the object alone.
NativeWrite(o, xs) == {heap} \cup {[heap EXCEPT ![o] = x] : x \in xs}

\* Every binding call records the state it was made in.
Snapshot == before' = heap /\ registryBefore' = registry

\* A thin wrapper call as a whole: heap2 and registry2 are what the native
\* call leaves behind.
Wrapper(name, args, fwd, heap2, registry2) ==
    /\ call' = [fn |-> name, args |-> args]
    /\ nativeCalls' = fwd.calls
    /\ ret' = fwd.ret
    /\ heap' = heap2
    /\ registry' = registry2
    /\ Snapshot

Thin(name, args, fwd, heap2) == Wrapper(name, args, fwd, heap2, registry)

\* The native library on a call that reports `code`: `done` if it succeeded.
OnSuccess(code, done) == IF code = "None" THEN done ELSE registry

\* fove_createHeadset: the new client starts with the capabilities given.
fove_createHeadset(capabilities) == [active |-> capabilities, passive |-> 0]

createHeadset(capabilities, outHeadset) ==
    \E code \in ErrorCodes, heap2 \in NativeWrite(outHeadset, Handles) :
        Wrapper("createHeadset", <<ByVal(capabilities), ByRef(outHeadset)>>,
                Forward("fove_createHeadset", <<ByVal(capabilities), Ptr(outHeadset)>>, code),
                heap2,
                OnSuccess(code, fove_createHeadset(capabilities)))

Headset_destroy(headset) ==
    \E code \in ErrorCodes :
        Thin("Headset_destroy", <<ByRef(headset)>>,
             Forward("fove_Headset_destroy", <<Deref(headset)>>, code),
             heap)

Headset_isHardwareConnected(headset, outConnected) ==
    \E code \in ErrorCodes, heap2 \in NativeWrite(outConnected, BOOLEAN) :
        Thin("Headset_isHardwareConnected", <<ByRef(headset), ByRef(outConnected)>>,
             Forward("fove_Headset_isHardwareConnected", <<Deref(headset), Ptr(outConnected)>>, code),
             heap2)

Headset_getGazeVector(headset, eye, out) ==
    \E code \in ErrorCodes, heap2 \in NativeWrite(out, Filled) :
        Thin("Headset_getGazeVector", <<ByRef(headset), ByVal(eye), ByRef(out)>>,
             Forward("fove_Headset_getGazeVector", <<Deref(headset), ByVal(eye), Ptr(out)>>, code),
             heap2)

Compositor_waitForRenderPose(compositor, outPose) ==
    \E code \in ErrorCodes, heap2 \in NativeWrite(outPose, Filled) :
        Thin("Compositor_waitForRenderPose", <<ByRef(compositor), ByRef(outPose)>>,
             Forward("fove_Compositor_waitForRenderPose", <<Deref(compositor), Ptr(outPose)>>, code),
             heap2)

Compositor_getLastRenderPose(compositor, outPose) ==
    \E code \in ErrorCodes, heap2 \in NativeWrite(outPose, Filled) :
        Thin("Compositor_getLastRenderPose", <<ByRef(compositor), ByRef(outPose)>>,
             Forward("fove_Compositor_getLastRenderPose", <<Deref(compositor), Ptr(outPose)>>, code),
             heap2)

Compositor_isReady(compositor, outIsReady) ==
    \E code \in ErrorCodes, heap2 \in NativeWrite(outIsReady, BOOLEAN) :
        Thin("Compositor_isReady", <<ByRef(compositor), ByRef(outIsReady)>>,
             Forward("fove_Compositor_isReady", <<Deref(compositor), Ptr(outIsReady)>>, code),
             heap2)

Config_getValue_bool(key, outValue) ==
    \E code \in ErrorCodes, heap2 \in NativeWrite(outValue, BOOLEAN) :
        Thin("Config_getValue_bool", <<ByVal(key), ByRef(outValue)>>,
             Forward("fove_Config_getValue_bool", <<ByVal(key), Ptr(outValue)>>, code),
             heap2)

\* Fove_CalibrationTarget{{0, 0, 0}, 0}
default_CalibrationTarget == [position |-> <<0, 0, 0>>, recommendedSize |-> 0]
\* CalibrationData(): the defaults of its constructor's arguments.
default_CalibrationData ==
    [method |-> "Spiral", state |-> "NotStarted", stateInfo |-> <<>>,
     targetL |-> default_CalibrationTarget, targetR |-> default_CalibrationTarget]

\* Versions(): every argument of the constructor at its default.
Python_Versions ==
    [clientMajor |-> -1, clientMinor |-> -1, clientBuild |-> -1, clientProtocol |-> -1,
     clientHash |-> <<>>,
     runtimeMajor |-> -1, runtimeMinor |-> -1, runtimeBuild |-> -1,
     runtimeHash |-> <<>>,
     firmware |-> -1, maxFirmware |-> -1, minFirmware |-> -1,
     tooOldHeadsetConnected |-> FALSE]
\* HeadsetHardwareInfo(): three empty strings.
Python_HeadsetHardwareInfo ==
    [serialNumber |-> <<>>, manufacturer |-> <<>>, modelName |-> <<>>]

\* Fove_Quaternion{0.0f, 0.0f, 0.0f, 1.0f}, also what Quaternion() builds.
default_Quaternion == <<0, 0, 0, 1>>
\* Fove_Vec3{0.0f, 0.0f, 0.0f}
default_Vec3 == <<0, 0, 0>>
\* Values of Fove_ColliderCube, Fove_ColliderSphere and Fove_ColliderMesh.
ColliderCube(s) == [size |-> <<s + 1, s + 2, s + 3>>]
ColliderSphere(s) == [radius |-> s + 1]
ColliderMesh(s) ==
    [vertices |-> s, vertexCount |-> 3 * s, indices |-> s, triangleCount |-> s,
     boundingBox |-> [center |-> default_Vec3, extend |-> <<s, s, s>>]]
\* py::init<Fove_Vec3>(): Fove_ObjectCollider{center}; the members after
\* center are value-initialized: shapeType is the enumerator 0 and the union
\* shapeDefinition is zeroed through its first member.
ObjectCollider_init(center) ==
    [center |-> center, shapeType |-> "Cube",
     shapeDefinition |-> [member |-> "cube", value |-> [size |-> default_Vec3]]]

\* ------------------------------------------------------------------ Init
\* The state after the host constructed its objects: Fove_Headset() and
\* Fove_Compositor() hold no handle, Bool() is false, structs are zero.
NoCall == [fn |-> "", args |-> <<>>]

\* The host objects as their constructors leave them.
DefaultHeap ==
    [o \in ObjIds |->
        CASE o \in HandleObjs -> 0
          [] o \in BoolObjs -> FALSE
          [] o \in StructObjs -> 0
          [] o = "error" -> "None"
          [] o = "string" -> <<>>
          [] o = "calib" -> default_CalibrationData
          [] o = "versions" -> Python_Versions
          [] o = "hwinfo" -> Python_HeadsetHardwareInfo
          [] o = "collider" -> ObjectCollider_init(default_Vec3)
          [] o = "submitInfo" -> [layerId |-> 0, pose |-> 0, left |-> 0, right |-> 0]
          [] o \in {"q1", "q2"} -> default_Quaternion
          [] o = "buffer" -> [type |-> "Vec2", mem |-> <<>>, outside |-> FALSE]]

Init ==
    /\ call = NoCall
    /\ nativeCalls = <<>>
    /\ ret = "None"
    /\ heap = DefaultHeap
    /\ before = heap
    /\ registry = [active |-> 0, passive |-> 0]
    /\ registryBefore = registry

\* ------------------------------------------------- thin wrappers (C1)
NextThin ==
    \/ \E c \in Tokens : createHeadset(c, "headset")
    \/ Headset_destroy("headset")
    \/ \E b \in BoolObjs : Headset_isHardwareConnected("headset", b)
    \/ \E e \in Tokens : Headset_getGazeVector("headset", e, "vec3")
    \/ Compositor_waitForRenderPose("compositor", "pose")
    \/ Compositor_getLastRenderPose("compositor", "pose")
    \/ \E b \in BoolObjs : Compositor_isReady("compositor", b)
    \/ \E k \in Tokens, b \in BoolObjs : Config_getValue_bool(k, b)

SpecThin == Init /\ [][NextThin]_vars

\* The native entry point each thin binding stands for.
NativeOf(name) ==
    CASE name = "createHeadset" -> "fove_createHeadset"
      [] name = "Headset_destroy" -> "fove_Headset_destroy"
      [] name = "Headset_isHardwareConnected" -> "fove_Headset_isHardwareConnected"
      [] name = "Headset_getGazeVector" -> "fove_Headset_getGazeVector"
      [] name = "Compositor_waitForRenderPose" -> "fove_Compositor_waitForRenderPose"
      [] name = "Compositor_getLastRenderPose" -> "fove_Compositor_getLastRenderPose"
      [] name = "Compositor_isReady" -> "fove_Compositor_isReady"
      [] name = "Config_getValue_bool" -> "fove_Config_getValue_bool"
      [] OTHER -> "?"

ThinNames ==
    {"createHeadset", "Headset_destroy", "Headset_isHardwareConnected",
     "Headset_getGazeVector", "Compositor_waitForRenderPose",
     "Compositor_getLastRenderPose", "Compositor_isReady", "Config_getValue_bool"}

\* The native argument n is the caller's argument a: the same plain value,
\* the address of the very object the caller passed, or (for a handle
\* wrapper) the handle that object held when the call was made.
SameArgument(a, n) ==
    \/ a.k = "val" /\ n.k = "val" /\ n.v = a.v
    \/ a.k = "obj" /\ n.k = "ptr" /\ n.id = a.id
    \/ a.k = "obj" /\ a.id \in HandleObjs /\ n.k = "val" /\ n.v = a.v

\* C1: a call of a binding that wraps a single native entry point makes
\* exactly one native call, to the corresponding native function, with the
\* caller's arguments in the caller's order, and returns to the caller
\* exactly the code that native call returned, whatever that code is.
C1_ThinForwarding ==
    call.fn \in ThinNames =>
        /\ Len(nativeCalls) = 1
        /\ nativeCalls[1].fn = NativeOf(call.fn)
        /\ Len(nativeCalls[1].args) = Len(call.args)
        /\ \A i \in 1..Len(call.args) : SameArgument(call.args[i], nativeCalls[1].args[i])
        /\ ret = nativeCalls[1].ret

\* A failing native call has been forwarded: the caller got its error code.
C1_Witness ==
    /\ call.fn = "Headset_getGazeVector"
    /\ Len(nativeCalls) = 1
    /\ nativeCalls[1].ret = "Data_NoUpdate"
    /\ ret = "Data_NoUpdate"
    /\ call.args[1].v = 2

\* ------------------------------------------------------------- C strings
\* A char is a small natural; NUL ends a C string.
NUL == 0
Seeds == 0..MaxSeed

\* std::string(const char*): the chars before the first NUL.
RECURSIVE StdString(_)
StdString(buf) ==
    IF buf = <<>> \/ Head(buf) = NUL THEN <<>>
    ELSE <<Head(buf)>> \o StdString(Tail(buf))

\* Native memory holding a C string: a text of 0..2 non-NUL chars, the
\* terminating NUL, and whatever follows it in memory.
Text(s) == [i \in 1..(s % 3) |-> 1 + ((s + i) % 2)]
CBuf(s) == Text(s) \o <<NUL, 1 + (s % 2)>>

\* s is the string the native memory buf holds: buf is s, a NUL, and a rest.
Holds(buf, s) ==
    /\ Len(s) < Len(buf)
    /\ \A i \in 1..Len(s) : s[i] = buf[i] /\ s[i] # NUL
    /\ buf[Len(s) + 1] = NUL

\* ------------------------------------------- Headset_queryLicenses (C2)
\* A Fove_LicenseInfo as the native library writes it.
NativeLicense(s) ==
    [expirationYear |-> 2028 + s, expirationMonth |-> 1 + s, expirationDay |-> 10 + s,
     licenseType |-> CBuf(s), licensee |-> CBuf(s + 1)]
\* make_unique<Fove_LicenseInfo[]>(n): n value-initialized entries.
ZeroLicense ==
    [expirationYear |-> 0, expirationMonth |-> 0, expirationDay |-> 0,
     licenseType |-> <<NUL>>, licensee |-> <<NUL>>]

\* The native library's answers to the two calls: a code and the count it
\* stores in *numLicenses; for the second call also the entries it writes
\* (never more than the capacity it was given).
NativeLicenseLists ==
    UNION { [1..n -> {NativeLicense(s) : s \in Seeds}] : n \in 0..MaxLicenses }

\* The loop body: one Python_LicenseInfo from one Fove_LicenseInfo
\* (uuid is left default-constructed).
LicenseFromNative(in) ==
    [uuid |-> <<>>,
     expirationYear |-> in.expirationYear,
     expirationMonth |-> in.expirationMonth,
     expirationDay |-> in.expirationDay,
     licenseType |-> StdString(in.licenseType),
     licensee |-> StdString(in.licensee)]

NullPtr == [k |-> "ptr", id |-> "nullptr", v |-> 0]
LocalPtr(name) == [k |-> "ptr", id |-> name, v |-> 0]

\* The lambda of Headset_queryLicenses, given what the native library answers:
\* code1/n1 to the count query, code2/written to the buffer-filling call.
QueryLicensesAlwaysFills(h, code1, n1, code2, written) ==
    LET first == [fn |-> "fove_Headset_queryLicenses",
                  args |-> <<h, NullPtr, LocalPtr("numLicenses")>>,
                  ret |-> code1, count |-> n1, buffer |-> <<>>]
        m == Len(written)
        buf == [i \in 1..n1 |-> IF i <= m THEN written[i] ELSE ZeroLicense]
        second == [fn |-> "fove_Headset_queryLicenses",
                   args |-> <<h, LocalPtr("licenses"), LocalPtr("numLicenses")>>,
                   ret |-> code2, count |-> m, buffer |-> buf]
    IN  IF code1 # "None" THEN [calls |-> <<first>>, error |-> code1, ret |-> <<>>]
        ELSE IF code2 # "None"
             THEN [calls |-> <<first, second>>, error |-> code2, ret |-> <<>>]
             ELSE [calls |-> <<first, second>>, error |-> code2,
                   ret |-> [i \in 1..m |-> LicenseFromNative(buf[i])]]
QueryLicenses(h, code1, n1, code2, written) ==
    LET first == [fn |-> "fove_Headset_queryLicenses",
                  args |-> <<h, NullPtr, LocalPtr("numLicenses")>>,
                  ret |-> code1, count |-> n1, buffer |-> <<>>]
        m == Len(written)
        buf == [i \in 1..n1 |-> IF i <= m THEN written[i] ELSE ZeroLicense]
        second == [fn |-> "fove_Headset_queryLicenses",
                   args |-> <<h, LocalPtr("licenses"), LocalPtr("numLicenses")>>,
                   ret |-> code2, count |-> m, buffer |-> buf]
    IN  IF code1 # "None" THEN [calls |-> <<first>>, error |-> code1, ret |-> <<>>]
        ELSE IF n1 > 0
             THEN IF code2 # "None"
                  THEN [calls |-> <<first, second>>, error |-> code2, ret |-> <<>>]
                  ELSE [calls |-> <<first, second>>, error |-> code2,
                        ret |-> [i \in 1..m |-> LicenseFromNative(buf[i])]]
             ELSE [calls |-> <<first>>, error |-> code1, ret |-> <<>>]

Headset_queryLicenses(headset, error) ==
    \E code1 \in ErrorCodes, n1 \in 0..MaxLicenses,
       code2 \in ErrorCodes, written \in NativeLicenseLists :
        /\ Len(written) <= n1
        /\ LET r == QueryLicenses(Deref(headset), code1, n1, code2, written)
           IN  /\ call' = [fn |-> "Headset_queryLicenses", args |-> <<ByRef(headset), ByRef(error)>>]
               /\ nativeCalls' = r.calls
               /\ heap' = [heap EXCEPT ![error] = r.error]
               /\ ret' = r.ret
        /\ Snapshot /\ UNCHANGED registry

\* The host gets a headset handle (createHeadset succeeded).
HostCreateHeadset ==
    \E h \in Handles \ {0} :
        /\ heap' = [heap EXCEPT !["headset"] = h]
        /\ call' = NoCall /\ nativeCalls' = <<>> /\ ret' = "None"
        /\ Snapshot /\ UNCHANGED registry

NextLicenses ==
    \/ HostCreateHeadset
    \/ Headset_queryLicenses("headset", "error")

SpecLicenses == Init /\ [][NextLicenses]_vars

LastNative == nativeCalls[Len(nativeCalls)]

CallbackRuns(S) == UNION { [1..n -> S] : n \in 0..MaxCallbacks }
CallbackSeeds == 0..MaxCallbackSeed
CallbackStrings == CallbackRuns({CBuf(s) : s \in CallbackSeeds})

\* A native call that takes a callback and user data.
NativeCallback(fn, nargs, code, vals) ==
    [fn |-> fn, args |-> nargs, ret |-> code, callbacks |-> vals]

\* Headset_listProfiles' callback, run once per invocation on the vector:
\* vectorPtr->push_back(val).
RECURSIVE PushFrontAll(_, _)
PushFrontAll(vec, vals) ==
    IF vals = <<>> THEN vec
    ELSE PushFrontAll(<<StdString(Head(vals))>> \o vec, Tail(vals))
RECURSIVE PushBackAll(_, _)
PushBackAll(vec, vals) ==
    IF vals = <<>> THEN vec
    ELSE PushBackAll(Append(vec, StdString(Head(vals))), Tail(vals))

Headset_listProfiles(headset, err) ==
    \E code \in ErrorCodes, vals \in CallbackStrings :
        /\ call' = [fn |-> "Headset_listProfiles", args |-> <<ByRef(headset), ByRef(err)>>]
        /\ nativeCalls' = << NativeCallback("fove_Headset_listProfiles",
                                <<Deref(headset), LocalPtr("callback"), LocalPtr("ret")>>,
                                code, vals) >>
        /\ ret' = PushBackAll(<<>>, vals)
        /\ heap' = [heap EXCEPT ![err] = code]
        /\ Snapshot /\ UNCHANGED registry

\* The callback of the three string getters, run once per invocation on the
\* caller's string: *valuePtr = val.
RECURSIVE AssignFirst(_, _)
AssignFirst(cur, vals) ==
    IF vals = <<>> THEN cur ELSE StdString(Head(vals))
RECURSIVE AssignAll(_, _)
AssignAll(cur, vals) ==
    IF vals = <<>> THEN cur ELSE AssignAll(StdString(Head(vals)), Tail(vals))

StringGetter(name, args, fn, nargs, out) ==
    \E code \in ErrorCodes, vals \in CallbackStrings :
        /\ call' = [fn |-> name, args |-> args]
        /\ nativeCalls' = << NativeCallback(fn, nargs, code, vals) >>
        /\ ret' = code
        /\ heap' = [heap EXCEPT ![out] = AssignAll(heap[out], vals)]
        /\ Snapshot /\ UNCHANGED registry

Headset_queryCurrentProfile(headset, profileName) ==
    StringGetter("Headset_queryCurrentProfile", <<ByRef(headset), ByRef(profileName)>>,
                 "fove_Headset_queryCurrentProfile",
                 <<Deref(headset), LocalPtr("callback"), Ptr(profileName)>>, profileName)

Headset_queryProfileDataPath(headset, profileName, dataPath) ==
    StringGetter("Headset_queryProfileDataPath",
                 <<ByRef(headset), ByVal(profileName), ByRef(dataPath)>>,
                 "fove_Headset_queryProfileDataPath",
                 <<Deref(headset), ByVal(profileName), LocalPtr("callback"), Ptr(dataPath)>>,
                 dataPath)

Config_getValue_string(key, outValue) ==
    StringGetter("Config_getValue_string", <<ByVal(key), ByRef(outValue)>>,
                 "fove_Config_getValue_string",
                 <<ByVal(key), LocalPtr("callback"), Ptr(outValue)>>, outValue)

\* The host constructs its String wrapper anew: String(val).
HostString(out) ==
    \E s \in CallbackSeeds :
        /\ heap' = [heap EXCEPT ![out] = Text(s + 1)]
        /\ call' = NoCall /\ nativeCalls' = <<>> /\ ret' = "None"
        /\ Snapshot /\ UNCHANGED registry

NextListProfiles ==
    \/ HostCreateHeadset
    \/ Headset_listProfiles("headset", "error")

SpecListProfiles == Init /\ [][NextListProfiles]_vars

NextStringGetters ==
    \/ HostCreateHeadset
    \/ HostString("string")
    \/ Headset_queryCurrentProfile("headset", "string")
    \/ \E n \in Tokens : Headset_queryProfileDataPath("headset", n, "string")
    \/ \E k \in Tokens : Config_getValue_string(k, "string")

SpecStringGetters == Init /\ [][NextStringGetters]_vars

\* C3: the list Headset_listProfiles returns holds exactly one entry per
\* invocation of the native callback during that call, in invocation order
\* (so nothing from an earlier call is in it), and `err` is the code the
\* native function returned, whether it is None or an error.
C3_ListProfiles ==
    call.fn = "Headset_listProfiles" =>
        /\ Len(nativeCalls) = 1
        /\ Len(ret) = Len(nativeCalls[1].callbacks)
        /\ \A i \in 1..Len(ret) : Holds(nativeCalls[1].callbacks[i], ret[i])
        /\ heap["error"] = nativeCalls[1].ret

\* A failing call during which the callback ran twice, with different names.
C3_Witness ==
    /\ call.fn = "Headset_listProfiles"
    /\ Len(ret) = 2
    /\ ret[1] # ret[2]
    /\ heap["error"] = "Connect_NotConnected"
    /\ before["error"] = "None"

StringGetterNames ==
    {"Headset_queryCurrentProfile", "Headset_queryProfileDataPath", "Config_getValue_string"}

\* C4: after Headset_queryCurrentProfile, Headset_queryProfileDataPath or
\* Config_getValue_string the caller's String wrapper holds the string the
\* native library passed to the callback (the last one if the callback ran
\* more than once), and its previous value if the callback did not run; the
\* returned code is the native one in both cases.
C4_StringGetters ==
    call.fn \in StringGetterNames =>
        LET cbs == nativeCalls[1].callbacks
        IN  /\ Len(nativeCalls) = 1
            /\ cbs = <<>> => heap["string"] = before["string"]
            /\ cbs # <<>> => Holds(cbs[Len(cbs)], heap["string"])
            /\ ret = nativeCalls[1].ret

\* The callback ran twice with different strings, on a wrapper that held a
\* third one.
C4_Witness ==
    /\ call.fn \in StringGetterNames
    /\ Len(nativeCalls[1].callbacks) = 2
    /\ StdString(nativeCalls[1].callbacks[1]) # StdString(nativeCalls[1].callbacks[2])
    /\ before["string"] # <<>>
    /\ heap["string"] # before["string"]

\* The callback did not run and the wrapper kept a non-empty string.
C4_WitnessNoCallback ==
    /\ call.fn \in StringGetterNames
    /\ nativeCalls[1].callbacks = <<>>
    /\ heap["string"] # <<>>

\* ----------------------------------------------- calibration data (C5)
\* Values as the host language sees them through a property.
PyEnum(e) == <<"enum", e>>
PyStr(str) == <<"str", str>>
PyObj(x) == <<"obj", x>>

CalibrationMethods == <<"Default", "OnePoint", "Spiral", "ZeroPoint">>
CalibrationStates == <<"WaitingForUser", "CollectingData", "ProcessingData", "Failed_Aborted">>

\* A Fove_CalibrationData as the native library hands it to the callback.
NativeCalibrationData(s) ==
    [method |-> CalibrationMethods[1 + (s % 4)],
     state |-> CalibrationStates[1 + (s % 4)],
     stateInfo |-> CBuf(s + 1),
     targetL |-> [position |-> <<s, s + 1, s + 2>>, recommendedSize |-> s + 3],
     targetR |-> [position |-> <<s + 4, s + 5, s + 6>>, recommendedSize |-> s + 7]]

CalibrationCallbacks == CallbackRuns({NativeCalibrationData(s) : s \in CallbackSeeds})

\* CalibrationData::FromNative
FromNative(nativeData) ==
    [method |-> nativeData.method,
     state |-> nativeData.state,
     stateInfo |-> StdString(nativeData.stateInfo),
     targetL |-> nativeData.targetL,
     targetR |-> nativeData.targetR]

\* The callback of the two calibration bindings, run once per invocation:
\* *data = CalibrationData::FromNative(nativeData).
RECURSIVE RunCalibrationCallback(_, _)
RunCalibrationCallback(data, natives) ==
    IF natives = <<>> THEN data
    ELSE RunCalibrationCallback(FromNative(Head(natives)), Tail(natives))

\* defstruct_CalibrationData: what reading property `name` of a
\* CalibrationData gives the host (each def_readwrite reads the member its
\* member pointer names).
CalibrationData_get(self, name) ==
    CASE name = "method" -> PyEnum(self.method)
      [] name = "state" -> PyEnum(self.state)
      [] name = "stateInfo" -> PyEnum(self.state)
      [] name = "targetL" -> PyObj(self.targetL)
      [] name = "targetR" -> PyObj(self.targetR)

CalibrationGetter(name, args, fn, nargs, data) ==
    \E code \in ErrorCodes, natives \in CalibrationCallbacks :
        /\ call' = [fn |-> name, args |-> args]
        /\ nativeCalls' = << NativeCallback(fn, nargs, code, natives) >>
        /\ ret' = code
        /\ heap' = [heap EXCEPT ![data] = RunCalibrationCallback(heap[data], natives)]
        /\ Snapshot /\ UNCHANGED registry

Headset_getEyeTrackingCalibrationStateDetails(headset, data) ==
    CalibrationGetter("Headset_getEyeTrackingCalibrationStateDetails",
                      <<ByRef(headset), ByRef(data)>>,
                      "fove_Headset_getEyeTrackingCalibrationStateDetails",
                      <<Deref(headset), LocalPtr("callback"), Ptr(data)>>, data)

Headset_tickEyeTrackingCalibration(headset, deltaTime, isVisible, data) ==
    CalibrationGetter("Headset_tickEyeTrackingCalibration",
                      <<ByRef(headset), ByVal(deltaTime), ByVal(isVisible), ByRef(data)>>,
                      "fove_Headset_tickEyeTrackingCalibration",
                      <<Deref(headset), ByVal(deltaTime), ByVal(isVisible),
                        LocalPtr("callback"), Ptr(data)>>, data)

NextCalibration ==
    \/ HostCreateHeadset
    \/ Headset_getEyeTrackingCalibrationStateDetails("headset", "calib")
    \/ \E dt \in Tokens, vis \in BOOLEAN :
           Headset_tickEyeTrackingCalibration("headset", dt, vis, "calib")

SpecCalibration == Init /\ [][NextCalibration]_vars

CalibrationNames ==
    {"Headset_getEyeTrackingCalibrationStateDetails", "Headset_tickEyeTrackingCalibration"}

\* The members of a CalibrationData other than stateInfo, as the host reads
\* them, are those of the native data n.
SameCalibrationMembers(data, n) ==
    /\ CalibrationData_get(data, "method") = PyEnum(n.method)
    /\ CalibrationData_get(data, "state") = PyEnum(n.state)
    /\ CalibrationData_get(data, "targetL") = PyObj(n.targetL)
    /\ CalibrationData_get(data, "targetR") = PyObj(n.targetR)

\* The property stateInfo reads the string the native memory buf holds.
ReadsString(v, buf) == v[1] = "str" /\ Holds(buf, v[2])

\* C5: after Headset_tickEyeTrackingCalibration or
\* Headset_getEyeTrackingCalibrationStateDetails, if the native library
\* invoked the callback then the caller's CalibrationData has method, state,
\* stateInfo, targetL and targetR equal to the native data of that invocation,
\* and if it did not invoke the callback the CalibrationData is unchanged.
C5_CalibrationData ==
    call.fn \in CalibrationNames =>
        LET natives == nativeCalls[1].callbacks
        IN  /\ natives = <<>> => heap["calib"] = before["calib"]
            /\ natives # <<>> =>
                   /\ SameCalibrationMembers(heap["calib"], natives[Len(natives)])
                   /\ ReadsString(CalibrationData_get(heap["calib"], "stateInfo"),
                                  natives[Len(natives)].stateInfo)

\* What does hold: the frame effect, the four other members, and the stored
\* stateInfo member (which no property reads).
C5_StoredMembers ==
    call.fn \in CalibrationNames =>
        LET natives == nativeCalls[1].callbacks
        IN  /\ natives = <<>> => heap["calib"] = before["calib"]
            /\ natives # <<>> =>
                   /\ SameCalibrationMembers(heap["calib"], natives[Len(natives)])
                   /\ Holds(natives[Len(natives)].stateInfo, heap["calib"].stateInfo)

\* ------------------------------------- versions and hardware info (C6)
\* A Fove_Versions as the native library fills it.
NativeVersions(s) ==
    [clientMajor |-> 10 + s, clientMinor |-> 20 + s, clientBuild |-> 30 + s,
     clientProtocol |-> 40 + s, clientHash |-> CBuf(s),
     runtimeMajor |-> 50 + s, runtimeMinor |-> 60 + s, runtimeBuild |-> 70 + s,
     runtimeHash |-> CBuf(s + 1),
     firmware |-> 80 + s, maxFirmware |-> 90 + s, minFirmware |-> s - 1,
     tooOldHeadsetConnected |-> (s % 2 = 1)]
\* A Fove_HeadsetHardwareInfo as the native library fills it.
NativeHardwareInfo(s) ==
    [serialNumber |-> CBuf(s), manufacturer |-> CBuf(s + 1), modelName |-> CBuf(s + 2)]

\* The contents of the lambda's local struct after the native call: what the
\* native library wrote and, as the local is not initialized, after a call
\* that wrote nothing whatever was there.
VersionsAfter(code) == {NativeVersions(s) : s \in Seeds}
HardwareInfoAfter(code) == {NativeHardwareInfo(s) : s \in Seeds}

\* The thirteen assignments of Headset_querySoftwareVersions.
VersionsFromNativeSwapsFirmware(versions) ==
    [clientMajor |-> versions.clientMajor,
     clientMinor |-> versions.clientMinor,
     clientBuild |-> versions.clientBuild,
     clientProtocol |-> versions.clientProtocol,
     clientHash |-> StdString(versions.clientHash),
     runtimeMajor |-> versions.runtimeMajor,
     runtimeMinor |-> versions.runtimeMinor,
     runtimeBuild |-> versions.runtimeBuild,
     runtimeHash |-> StdString(versions.runtimeHash),
     firmware |-> versions.firmware,
     maxFirmware |-> versions.minFirmware,
     minFirmware |-> versions.maxFirmware,
     tooOldHeadsetConnected |-> versions.tooOldHeadsetConnected]
VersionsFromNative(versions) ==
    [clientMajor |-> versions.clientMajor,
     clientMinor |-> versions.clientMinor,
     clientBuild |-> versions.clientBuild,
     clientProtocol |-> versions.clientProtocol,
     clientHash |-> StdString(versions.clientHash),
     runtimeMajor |-> versions.runtimeMajor,
     runtimeMinor |-> versions.runtimeMinor,
     runtimeBuild |-> versions.runtimeBuild,
     runtimeHash |-> StdString(versions.runtimeHash),
     firmware |-> versions.firmware,
     maxFirmware |-> versions.maxFirmware,
     minFirmware |-> versions.minFirmware,
     tooOldHeadsetConnected |-> versions.tooOldHeadsetConnected]

\* The three assignments of Headset_queryHardwareInfo.
HardwareInfoFromNative(info) ==
    [serialNumber |-> StdString(info.serialNumber),
     manufacturer |-> StdString(info.manufacturer),
     modelName |-> StdString(info.modelName)]

\* A native call that fills a struct local to the lambda.
NativeFill(fn, nargs, code, out) ==
    [fn |-> fn, args |-> nargs, ret |-> code, out |-> out]

Headset_querySoftwareVersions(headset, outVersions) ==
    \E code \in ErrorCodes :
        \E versions \in VersionsAfter(code) :
            /\ call' = [fn |-> "Headset_querySoftwareVersions",
                        args |-> <<ByRef(headset), ByRef(outVersions)>>]
            /\ nativeCalls' = << NativeFill("fove_Headset_querySoftwareVersions",
                                    <<Deref(headset), LocalPtr("versions")>>, code, versions) >>
            /\ heap' = [heap EXCEPT ![outVersions] = VersionsFromNative(versions)]
            /\ ret' = code
            /\ Snapshot /\ UNCHANGED registry

Headset_queryHardwareInfo(headset, outHardwareInfo) ==
    \E code \in ErrorCodes :
        \E info \in HardwareInfoAfter(code) :
            /\ call' = [fn |-> "Headset_queryHardwareInfo",
                        args |-> <<ByRef(headset), ByRef(outHardwareInfo)>>]
            /\ nativeCalls' = << NativeFill("fove_Headset_queryHardwareInfo",
                                    <<Deref(headset), LocalPtr("info")>>, code, info) >>
            /\ heap' = [heap EXCEPT ![outHardwareInfo] = HardwareInfoFromNative(info)]
            /\ ret' = code
            /\ Snapshot /\ UNCHANGED registry

\* The host constructs its Versions object anew, without arguments.
Versions(out) ==
    /\ call' = [fn |-> "Versions", args |-> <<>>]
    /\ nativeCalls' = <<>>
    /\ ret' = "None"
    /\ heap' = [heap EXCEPT ![out] = Python_Versions]
    /\ Snapshot /\ UNCHANGED registry

NextVersions ==
    \/ HostCreateHeadset
    \/ Versions("versions")
    \/ Headset_querySoftwareVersions("headset", "versions")
    \/ Headset_queryHardwareInfo("headset", "hwinfo")

SpecVersions == Init /\ [][NextVersions]_vars

VersionsIntFields ==
    {"clientMajor", "clientMinor", "clientBuild", "clientProtocol",
     "runtimeMajor", "runtimeMinor", "runtimeBuild",
     "firmware", "maxFirmware", "minFirmware"}

\* C6: a Versions constructed without arguments has every integer field -1,
\* both hash strings empty and tooOldHeadsetConnected false; after a
\* successful Headset_querySoftwareVersions each of its 13 fields is the
\* corresponding field of the native struct, and after a successful
\* Headset_queryHardwareInfo the three strings of the HeadsetHardwareInfo are
\* those of the native struct.
C6_Versions ==
    /\ call.fn = "Versions" =>
           /\ \A f \in VersionsIntFields : heap["versions"][f] = -1
           /\ heap["versions"].clientHash = <<>>
           /\ heap["versions"].runtimeHash = <<>>
           /\ heap["versions"].tooOldHeadsetConnected = FALSE
    /\ (call.fn = "Headset_querySoftwareVersions" /\ ret = "None") =>
           LET n == nativeCalls[1].out
               v == heap["versions"]
           IN  /\ DOMAIN v = VersionsIntFields
                               \cup {"clientHash", "runtimeHash", "tooOldHeadsetConnected"}
               /\ \A f \in VersionsIntFields : v[f] = n[f]
               /\ Holds(n.clientHash, v.clientHash)
               /\ Holds(n.runtimeHash, v.runtimeHash)
               /\ v.tooOldHeadsetConnected = n.tooOldHeadsetConnected
    /\ (call.fn = "Headset_queryHardwareInfo" /\ ret = "None") =>
           LET n == nativeCalls[1].out
               v == heap["hwinfo"]
           IN  /\ Holds(n.serialNumber, v.serialNumber)
               /\ Holds(n.manufacturer, v.manufacturer)
               /\ Holds(n.modelName, v.modelName)

\* A successful version query overwrote a Versions that was not at its
\* defaults, with a struct whose hashes are not empty.
C6_Witness ==
    /\ call.fn = "Headset_querySoftwareVersions"
    /\ ret = "None"
    /\ before["versions"] # Python_Versions
    /\ heap["versions"] # before["versions"]
    /\ heap["versions"].clientHash # <<>>
    /\ heap["versions"].tooOldHeadsetConnected

\* -------------------------------------------- ObjectCollider (C7, C8)
\* The outcome of a property access: a value, or an exception raised.
Value(v) == <<"value", v>>
Raise(e) == <<"raise", e>>

\* Reading member m of the union shapeDefinition: its value if m is the
\* member written last, otherwise bytes of another member.
UnionRead(u, m) == IF u.member = m THEN u.value ELSE "indeterminate"
UnionWrite(m, value) == [member |-> m, value |-> value]

\* The getters and setters of the three definition properties.
cubeDefinition_get(self) ==
    IF self.shapeType # "Cube"
    THEN Raise("Error the collider is not of cube type")
    ELSE Value(UnionRead(self.shapeDefinition, "cube"))
cubeDefinition_set(self, value) ==
    [self EXCEPT !.shapeType = "Cube", !.shapeDefinition = UnionWrite("cube", value)]

sphereDefinition_getUnguarded(self) ==
    Value(UnionRead(self.shapeDefinition, "sphere"))
sphereDefinition_get(self) ==
    IF self.shapeType # "Sphere"
    THEN Raise("Error the collider is not of sphere type")
    ELSE Value(UnionRead(self.shapeDefinition, "sphere"))
sphereDefinition_set(self, value) ==
    [self EXCEPT !.shapeType = "Sphere", !.shapeDefinition = UnionWrite("sphere", value)]

meshDefinition_get(self) ==
    IF self.shapeType # "Mesh"
    THEN Raise("Error the collider is not of mesh type")
    ELSE Value(UnionRead(self.shapeDefinition, "mesh"))
meshDefinition_setKeepsType(self, value) ==
    [self EXCEPT !.shapeDefinition = UnionWrite("mesh", value)]
meshDefinition_set(self, value) ==
    [self EXCEPT !.shapeType = "Mesh", !.shapeDefinition = UnionWrite("mesh", value)]

DefinitionNames == {"cubeDefinition", "sphereDefinition", "meshDefinition"}
Definition_get(self, name) ==
    CASE name = "cubeDefinition" -> cubeDefinition_get(self)
      [] name = "sphereDefinition" -> sphereDefinition_get(self)
      [] name = "meshDefinition" -> meshDefinition_get(self)
Definition_set(self, name, value) ==
    CASE name = "cubeDefinition" -> cubeDefinition_set(self, value)
      [] name = "sphereDefinition" -> sphereDefinition_set(self, value)
      [] name = "meshDefinition" -> meshDefinition_set(self, value)
DefinitionValues(name) ==
    CASE name = "cubeDefinition" -> {ColliderCube(s) : s \in Tokens}
      [] name = "sphereDefinition" -> {ColliderSphere(s) : s \in Tokens}
      [] name = "meshDefinition" -> {ColliderMesh(s) : s \in Tokens}

\* A property access of the host on its ObjectCollider: no native call.
Access(name, args, result, self, self2) ==
    /\ call' = [fn |-> name, args |-> args]
    /\ nativeCalls' = <<>>
    /\ ret' = result
    /\ heap' = [heap EXCEPT ![self] = self2]
    /\ Snapshot /\ UNCHANGED registry

\* ObjectCollider(center)
ObjectCollider(self) ==
    \E t \in Tokens :
        Access("ObjectCollider", <<ByVal(<<t, t, t>>)>>, Value("None"),
               self, ObjectCollider_init(<<t, t, t>>))

\* self.center = value (def_readwrite)
ObjectCollider_set_center(self) ==
    \E t \in Tokens :
        Access("center.set", <<ByVal(<<t, 0, t>>)>>, Value("None"),
               self, [heap[self] EXCEPT !.center = <<t, 0, t>>])

\* self.shapeType = value (def_readonly: the property has no setter)
ObjectCollider_set_shapeType(self) ==
    \E t \in {"Cube", "Sphere", "Mesh"} :
        Access("shapeType.set", <<ByVal(t)>>, Raise("AttributeError"), self, heap[self])

\* self.cubeDefinition, self.sphereDefinition, self.meshDefinition
ObjectCollider_get(self, name) ==
    Access(name, <<>>, Definition_get(heap[self], name), self, heap[self])

\* self.cubeDefinition = value, ...
ObjectCollider_set(self, name) ==
    \E value \in DefinitionValues(name) :
        Access(name, <<ByVal(value)>>, Value("None"),
               self, Definition_set(heap[self], name, value))

NextCollider ==
    \/ ObjectCollider("collider")
    \/ ObjectCollider_set_center("collider")
    \/ ObjectCollider_set_shapeType("collider")
    \/ \E name \in DefinitionNames : ObjectCollider_get("collider", name)
    \/ \E name \in DefinitionNames : ObjectCollider_set("collider", name)

SpecCollider == Init /\ [][NextCollider]_vars

Succeeds(result) == result[1] = "value"
TypeOfDefinition(name) ==
    CASE name = "cubeDefinition" -> "Cube"
      [] name = "sphereDefinition" -> "Sphere"
      [] name = "meshDefinition" -> "Mesh"
IsRead == call.fn \in DefinitionNames /\ call.args = <<>>
IsAssignment == call.fn \in DefinitionNames /\ call.args # <<>>

\* C7: in every reachable state of an ObjectCollider, reading cubeDefinition,
\* sphereDefinition or meshDefinition succeeds exactly when shapeType is Cube,
\* Sphere or Mesh respectively, so at most one of the three reads succeeds; a
\* read for a non-matching type raises an error and leaves center, shapeType
\* and the stored definition unchanged.
C7_ColliderReads ==
    /\ \A name \in DefinitionNames :
           Succeeds(Definition_get(heap["collider"], name))
               <=> heap["collider"].shapeType = TypeOfDefinition(name)
    /\ Cardinality({name \in DefinitionNames :
                       Succeeds(Definition_get(heap["collider"], name))}) <= 1
    /\ IsRead =>
           /\ ret = Definition_get(before["collider"], call.fn)
           /\ ~Succeeds(ret) =>
                  /\ ret[1] = "raise"
                  /\ heap["collider"] = before["collider"]

\* A read of sphereDefinition was refused on a mesh collider with a center set.
C7_Witness ==
    /\ IsRead
    /\ call.fn = "sphereDefinition"
    /\ ret[1] = "raise"
    /\ heap["collider"].shapeType = "Mesh"
    /\ heap["collider"].center # default_Vec3
    /\ heap["collider"].shapeDefinition.value = ColliderMesh(1)

MemberOfType(t) ==
    CASE t = "Cube" -> "cube" [] t = "Sphere" -> "sphere" [] t = "Mesh" -> "mesh"

\* C8: assigning cubeDefinition, sphereDefinition or meshDefinition sets
\* shapeType to Cube, Sphere or Mesh respectively and stores the value, so
\* that a read of the same property right after returns the assigned value;
\* no other access changes shapeType (assigning shapeType is refused,
\* assigning center leaves it alone), and shapeType is always the type of the
\* definition assigned last.
C8_ColliderAssignments ==
    /\ IsAssignment =>
           /\ heap["collider"].shapeType = TypeOfDefinition(call.fn)
           /\ Definition_get(heap["collider"], call.fn) = Value(call.args[1].v)
    /\ (call.fn \in {"center.set", "shapeType.set"} \/ IsRead) =>
           heap["collider"].shapeType = before["collider"].shapeType
    /\ call.fn = "shapeType.set" =>
           ret[1] = "raise" /\ heap["collider"] = before["collider"]
    /\ heap["collider"].shapeDefinition.member = MemberOfType(heap["collider"].shapeType)

\* A sphere was assigned to a collider that held a mesh.
C8_Witness ==
    /\ IsAssignment
    /\ call.fn = "sphereDefinition"
    /\ before["collider"].shapeType = "Mesh"
    /\ heap["collider"].shapeDefinition.value = ColliderSphere(1)

C8_WitnessCenter ==
    /\ call.fn = "center.set"
    /\ heap["collider"].shapeType = "Sphere"
    /\ heap["collider"].center # before["collider"].center

\* -------------------------------------------- client capabilities (C9)
\* Fove_ClientCapabilities is a set of flags held in an int; the operators
\* &, | and ~ on it are those of the underlying int (two's complement).
RECURSIVE BitAnd(_, _)
BitAnd(a, b) ==
    IF a = 0 \/ b = 0 THEN 0
    ELSE IF a = -1 THEN b
    ELSE IF b = -1 THEN a
    ELSE (a % 2) * (b % 2) + 2 * BitAnd(a \div 2, b \div 2)
BitNot(a) == -a - 1
BitOr(a, b) == BitNot(BitAnd(BitNot(a), BitNot(b)))

RECURSIVE Pow2(_)
Pow2(n) == IF n = 0 THEN 1 ELSE 2 * Pow2(n - 1)
Capabilities == 0 .. (Pow2(MaxCapabilityBit + 1) - 1)

\* The native library, as the bindings document it: a client has a list of
\* active and a list of passive capabilities, kept totally separate;
\* registering adds to one list, unregistering removes from the same list.
fove_Headset_registerCapabilities(caps) ==
    [registry EXCEPT !.active = BitOr(@, caps)]
fove_Headset_registerPassiveCapabilities(caps) ==
    [registry EXCEPT !.passive = BitOr(@, caps)]
fove_Headset_unregisterCapabilities(caps) ==
    [registry EXCEPT !.active = BitAnd(@, BitNot(caps))]
fove_Headset_unregisterPassiveCapabilities(caps) ==
    [registry EXCEPT !.passive = BitAnd(@, BitNot(caps))]

Headset_registerCapabilities(headset, caps) ==
    \E code \in ErrorCodes :
        Wrapper("Headset_registerCapabilities", <<ByRef(headset), ByVal(caps)>>,
                Forward("fove_Headset_registerCapabilities", <<Deref(headset), ByVal(caps)>>, code),
                heap, OnSuccess(code, fove_Headset_registerCapabilities(caps)))

Headset_registerPassiveCapabilities(headset, caps) ==
    \E code \in ErrorCodes :
        Wrapper("Headset_registerPassiveCapabilities", <<ByRef(headset), ByVal(caps)>>,
                Forward("fove_Headset_registerPassiveCapabilities", <<Deref(headset), ByVal(caps)>>, code),
                heap, OnSuccess(code, fove_Headset_registerPassiveCapabilities(caps)))

Headset_unregisterCapabilities(headset, caps) ==
    \E code \in ErrorCodes :
        Wrapper("Headset_unregisterCapabilities", <<ByRef(headset), ByVal(caps)>>,
                Forward("fove_Headset_unregisterCapabilities", <<Deref(headset), ByVal(caps)>>, code),
                heap, OnSuccess(code, fove_Headset_unregisterCapabilities(caps)))

Headset_unregisterPassiveCapabilities(headset, caps) ==
    \E code \in ErrorCodes :
        Wrapper("Headset_unregisterPassiveCapabilities", <<ByRef(headset), ByVal(caps)>>,
                Forward("fove_Headset_unregisterPassiveCapabilities", <<Deref(headset), ByVal(caps)>>, code),
                heap, OnSuccess(code, fove_Headset_unregisterPassiveCapabilities(caps)))

NextCapabilities ==
    \/ \E caps \in Capabilities : createHeadset(caps, "headset")
    \/ \E caps \in Capabilities : Headset_registerCapabilities("headset", caps)
    \/ \E caps \in Capabilities : Headset_registerPassiveCapabilities("headset", caps)
    \/ \E caps \in Capabilities : Headset_unregisterCapabilities("headset", caps)
    \/ \E caps \in Capabilities : Headset_unregisterPassiveCapabilities("headset", caps)

SpecCapabilities == Init /\ [][NextCapabilities]_vars

\* C9: a Headset_unregisterCapabilities(caps) that succeeded has removed caps
\* from the passive capabilities of the client and has left its active
\* capabilities as they were; if none of caps was registered passively,
\* nothing has changed.
C9_UnregisterCapabilities ==
    (call.fn = "Headset_unregisterCapabilities" /\ ret = "None") =>
        /\ registry.passive = BitAnd(registryBefore.passive, BitNot(call.args[2].v))
        /\ registry.active = registryBefore.active
        /\ BitAnd(registryBefore.passive, call.args[2].v) = 0 => registry = registryBefore

\* What the call does, whatever it reported: one native call of
\* fove_Headset_unregisterCapabilities, which takes caps off the active list
\* and leaves the passive list alone.
C9_Forwarded ==
    call.fn = "Headset_unregisterCapabilities" =>
        /\ Len(nativeCalls) = 1
        /\ nativeCalls[1].fn = "fove_Headset_unregisterCapabilities"
        /\ nativeCalls[1].args[2].v = call.args[2].v
        /\ ret = nativeCalls[1].ret
        /\ registry.passive = registryBefore.passive
        /\ ret = "None" => registry.active = BitAnd(registryBefore.active, BitNot(call.args[2].v))
        /\ ret # "None" => registry.active = registryBefore.active

\* -------------------------------------------- Compositor_submit (C10)
\* A Fove_CompositorLayerSubmitInfo: layerId, pose, left and right.
CompositorLayerSubmitInfo(s) ==
    [layerId |-> s, pose |-> s + 1, left |-> s + 2, right |-> s + 3]

\* `&submitInfo` points to one struct. The native library reads layerCount
\* structs from that address on: element 0 is the caller's struct, any
\* element after it lies outside the object.
SuppliedCount == 1
NativeReads(submitInfo, layerCount) ==
    [i \in 1 .. layerCount |->
        [id |-> submitInfo, index |-> i - 1,
         v |-> IF i - 1 < SuppliedCount THEN heap[submitInfo] ELSE "indeterminate"]]

Compositor_submit(compositor, submitInfo, layerCount) ==
    \E code \in ErrorCodes :
        /\ call' = [fn |-> "Compositor_submit",
                    args |-> <<ByRef(compositor), ByRef(submitInfo), ByVal(layerCount)>>]
        /\ nativeCalls' = << [fn |-> "fove_Compositor_submit",
                              args |-> <<Deref(compositor), Ptr(submitInfo), ByVal(layerCount)>>,
                              ret |-> code,
                              reads |-> NativeReads(submitInfo, layerCount)] >>
        /\ ret' = code
        /\ heap' = heap
        /\ Snapshot /\ UNCHANGED registry

\* The host has a compositor and fills in its submit info.
HostCreateCompositor ==
    \E h \in Handles \ {0} :
        /\ heap' = [heap EXCEPT !["compositor"] = h]
        /\ call' = NoCall /\ nativeCalls' = <<>> /\ ret' = "None"
        /\ Snapshot /\ UNCHANGED registry

HostSubmitInfo(submitInfo) ==
    \E s \in Seeds :
        /\ heap' = [heap EXCEPT ![submitInfo] = CompositorLayerSubmitInfo(s)]
        /\ call' = NoCall /\ nativeCalls' = <<>> /\ ret' = "None"
        /\ Snapshot /\ UNCHANGED registry

NextSubmit ==
    \/ HostCreateCompositor
    \/ HostSubmitInfo("submitInfo")
    \/ \E layerCount \in 0 .. MaxLayerCount :
           Compositor_submit("compositor", "submitInfo", layerCount)

SpecSubmit == Init /\ [][NextSubmit]_vars

\* C10: for every layerCount passed to Compositor_submit, the native call is
\* given layerCount valid submit-info structs: each struct it reads lies
\* within the data the caller supplied.
C10_SubmitWithinSupplied ==
    call.fn = "Compositor_submit" =>
        /\ Len(nativeCalls) = 1
        /\ Len(nativeCalls[1].reads) = call.args[3].v
        /\ \A i \in 1 .. Len(nativeCalls[1].reads) :
               /\ nativeCalls[1].reads[i].index < SuppliedCount
               /\ nativeCalls[1].reads[i].v = before[call.args[2].id]

\* What holds: the native call gets the address of the caller's one struct
\* and the caller's layerCount, and its reads stay within that struct
\* exactly when layerCount is at most one.
C10_OneStruct ==
    call.fn = "Compositor_submit" =>
        /\ Len(nativeCalls) = 1
        /\ nativeCalls[1].args[2] = Ptr(call.args[2].id)
        /\ nativeCalls[1].args[3] = call.args[3]
        /\ ret = nativeCalls[1].ret
        /\ (\A i \in 1 .. Len(nativeCalls[1].reads) :
                nativeCalls[1].reads[i].index < SuppliedCount) <=> call.args[3].v <= 1

\* -------------------------------------- flag-set operators (C11, C12, C13)
\* Fove_ObjectGroup uses every bit of the int, the sign bit included: a
\* negative value stands for a set of groups that holds the topmost one.
Groups == (-Pow2(MaxCapabilityBit + 1)) .. (Pow2(MaxCapabilityBit + 1) - 1)

\* The lambdas bound on ClientCapabilities.
ClientCapabilities_eq(cap1, cap2) == cap1 = cap2
ClientCapabilities_boolAlways(cap) == TRUE
ClientCapabilities_bool(cap) == cap # 0
ClientCapabilities_and(cap1, cap2) == BitAnd(cap1, cap2)
ClientCapabilities_or(cap1, cap2) == BitOr(cap1, cap2)
ClientCapabilities_add(cap1, cap2) == BitOr(cap1, cap2)
ClientCapabilities_sub(cap1, cap2) == BitAnd(cap1, BitNot(cap2))
ClientCapabilities_containsSwapped(cap1, cap2) == BitAnd(cap1, cap2) = cap1
ClientCapabilities_contains(cap1, cap2) == BitAnd(cap1, cap2) = cap2

\* The lambdas bound on ObjectGroup.
ObjectGroup_add(grp1, grp2) == BitOr(grp1, grp2)
ObjectGroup_sub(grp1, grp2) == BitAnd(grp1, BitNot(grp2))
ObjectGroup_contains(grp1, grp2) == BitAnd(grp1, grp2) = grp2

\* The host evaluates an expression on enum values; `args` are its operands
\* as written, left to right. No host object and no native state is touched.
Evaluate(expr, args, result) ==
    /\ call' = [fn |-> expr, args |-> args]
    /\ nativeCalls' = <<>>
    /\ ret' = result
    /\ heap' = heap
    /\ Snapshot /\ UNCHANGED registry

\* x == y, bool(x), x & y, x | y, x + y, x - y: type(x).__op__(x, y).
Capabilities_Eq(x, y) ==
    Evaluate("ClientCapabilities ==", <<x, y>>, ClientCapabilities_eq(x, y))
Capabilities_Bool(x) ==
    Evaluate("ClientCapabilities bool", <<x>>, ClientCapabilities_bool(x))
Capabilities_And(x, y) ==
    Evaluate("ClientCapabilities &", <<x, y>>, PyEnum(ClientCapabilities_and(x, y)))
Capabilities_Or(x, y) ==
    Evaluate("ClientCapabilities |", <<x, y>>, PyEnum(ClientCapabilities_or(x, y)))
Capabilities_Add(x, y) ==
    Evaluate("ClientCapabilities +", <<x, y>>, PyEnum(ClientCapabilities_add(x, y)))
Capabilities_Sub(x, y) ==
    Evaluate("ClientCapabilities -", <<x, y>>, PyEnum(ClientCapabilities_sub(x, y)))
\* x in y: type(y).__contains__(y, x).
Capabilities_In(x, y) ==
    Evaluate("ClientCapabilities in", <<x, y>>, ClientCapabilities_contains(y, x))

Groups_Add(x, y) ==
    Evaluate("ObjectGroup +", <<x, y>>, PyEnum(ObjectGroup_add(x, y)))
Groups_Sub(x, y) ==
    Evaluate("ObjectGroup -", <<x, y>>, PyEnum(ObjectGroup_sub(x, y)))
Groups_In(x, y) ==
    Evaluate("ObjectGroup in", <<x, y>>, ObjectGroup_contains(y, x))

NextFlags ==
    \/ \E x, y \in Capabilities : Capabilities_Eq(x, y)
    \/ \E x \in Capabilities : Capabilities_Bool(x)
    \/ \E x, y \in Capabilities : Capabilities_And(x, y)
    \/ \E x, y \in Capabilities : Capabilities_Or(x, y)
    \/ \E x, y \in Capabilities : Capabilities_Add(x, y)
    \/ \E x, y \in Capabilities : Capabilities_Sub(x, y)
    \/ \E x, y \in Capabilities : Capabilities_In(x, y)
    \/ \E x, y \in Groups : Groups_Add(x, y)
    \/ \E x, y \in Groups : Groups_Sub(x, y)
    \/ \E x, y \in Groups : Groups_In(x, y)

SpecFlags == Init /\ [][NextFlags]_vars

\* The flags of a value: the positions of its set bits in two's complement;
\* the topmost position stands for the sign bit and all above it.
BitPositions == 0 .. (MaxCapabilityBit + 1)
Bits(v) == {i \in BitPositions : (v \div Pow2(i)) % 2 = 1}

\* C11: cap1 - cap2 (and grp1 - grp2) returns cap2 with cap1 removed: the
\* result has exactly the bits that are set in cap2 and not set in cap1.
C11_SubRemovesFirstFromSecond ==
    call.fn \in {"ClientCapabilities -", "ObjectGroup -"} =>
        /\ ret[1] = "enum"
        /\ Bits(ret[2]) = Bits(call.args[2]) \ Bits(call.args[1])

\* What the lambdas compute: the first operand with the second removed.
C11_SubRemovesSecondFromFirst ==
    call.fn \in {"ClientCapabilities -", "ObjectGroup -"} =>
        /\ ret[1] = "enum"
        /\ Bits(ret[2]) = Bits(call.args[1]) \ Bits(call.args[2])

\* C12: cap2 in cap1 is True exactly when every bit set in cap2 is also set
\* in cap1; so None_ is in every value, every value is in itself and cap2 is
\* in cap1 + cap2. The same for ObjectGroup.
C12_Contains ==
    /\ call.fn \in {"ClientCapabilities in", "ObjectGroup in"} =>
           /\ ret = (Bits(call.args[1]) \subseteq Bits(call.args[2]))
           /\ call.args[1] = 0 => ret = TRUE
           /\ call.args[1] = call.args[2] => ret = TRUE
    /\ call.fn = "ClientCapabilities +" =>
           /\ ClientCapabilities_contains(ret[2], call.args[2])
           /\ ClientCapabilities_contains(ret[2], call.args[1])
    /\ call.fn = "ObjectGroup +" =>
           /\ ObjectGroup_contains(ret[2], call.args[2])
           /\ ObjectGroup_contains(ret[2], call.args[1])

\* `1 in 3` was found True, and `3 in 1` would not be.
C12_Witness ==
    /\ call.fn = "ClientCapabilities in"
    /\ call.args = <<1, 3>>
    /\ ret = TRUE
    /\ ~ClientCapabilities_contains(1, 3)

C12_WitnessGroup ==
    /\ call.fn = "ObjectGroup in"
    /\ call.args[1] < 0
    /\ call.args[2] >= 0
    /\ ret = FALSE

\* C13: | and + both return the union and agree; the union is commutative,
\* associative and idempotent with None_ as identity; & returns the
\* intersection; bool(cap) is False exactly when cap equals None_, so
\* bool(cap1 & cap2) is False exactly when the two share no bit.
C13_FlagSet ==
    /\ call.fn \in {"ClientCapabilities |", "ClientCapabilities +"} =>
           /\ ret[1] = "enum"
           /\ Bits(ret[2]) = Bits(call.args[1]) \cup Bits(call.args[2])
           /\ ret[2] = ClientCapabilities_or(call.args[1], call.args[2])
           /\ ret[2] = ClientCapabilities_add(call.args[1], call.args[2])
           /\ ret[2] = ClientCapabilities_or(call.args[2], call.args[1])
           /\ ClientCapabilities_or(ret[2], ret[2]) = ret[2]
           /\ call.args[2] = 0 => ret[2] = call.args[1]
           /\ call.args[1] = 0 => ret[2] = call.args[2]
           /\ \A z \in Capabilities :
                  ClientCapabilities_or(ret[2], z)
                      = ClientCapabilities_or(call.args[1], ClientCapabilities_or(call.args[2], z))
    /\ call.fn = "ClientCapabilities &" =>
           /\ ret[1] = "enum"
           /\ Bits(ret[2]) = Bits(call.args[1]) \cap Bits(call.args[2])
           /\ ClientCapabilities_bool(ret[2])
                  <=> Bits(call.args[1]) \cap Bits(call.args[2]) # {}
    /\ call.fn = "ClientCapabilities bool" =>
           ret = ~ClientCapabilities_eq(call.args[1], 0)
    /\ call.fn = "ClientCapabilities ==" =>
           ret = (Bits(call.args[1]) = Bits(call.args[2]))

\* 1 | 2 gave 3, and 1 & 2 is falsy.
C13_Witness ==
    /\ call.fn = "ClientCapabilities |"
    /\ call.args = <<1, 2>>
    /\ ret = PyEnum(3)
    /\ ~ClientCapabilities_bool(ClientCapabilities_and(1, 2))

C13_WitnessBool ==
    /\ call.fn = "ClientCapabilities bool"
    /\ call.args = <<0>>
    /\ ret = FALSE

\* ------------------------------------------ vector times scalar (C14)
\* Components and scalars are floats holding small integers, on which the
\* float product is exact.
Components == -1 .. MaxComponent
PyFloat(a) == <<"float", a>>
PyVec3(v) == <<"Vec3", v>>
PyVec2(v) == <<"Vec2", v>>
PyQuaternion(q) == <<"Quaternion", q>>

\* pybind11 loads a host value into a parameter of C++ type `type` if the
\* value is an instance of the bound class, or a number for a float.
Loads(type, x) == x[1] = type
\* With py::is_operator() a call whose arguments do not load returns
\* NotImplemented instead of raising.
NotImplemented == <<"NotImplemented">>

\* The lambdas, on the C++ values.
Vec3_mul(self, a) == <<a * self[1], a * self[2], a * self[3]>>
Vec3_rmul(a, self) == <<a * self[1], a * self[2], a * self[3]>>
Vec2_mul(self, a) == <<a * self[1], a * self[2]>>
Vec2_rmul(a, self) == <<a * self[1], a * self[2]>>
\* q1 = self, q2 = other; components 1..4 are x, y, z, w.
Quaternion_mulSwapsYZ(q1, q2) ==
    << q1[4] * q2[1] + q1[1] * q2[4] + q1[2] * q2[3] - q1[3] * q2[2],
       q1[4] * q2[3] + q1[3] * q2[4] + q1[1] * q2[2] - q1[2] * q2[1],
       q1[4] * q2[2] + q1[2] * q2[4] + q1[3] * q2[1] - q1[1] * q2[3],
       q1[4] * q2[4] - q1[1] * q2[1] - q1[2] * q2[2] - q1[3] * q2[3] >>
Quaternion_mul(q1, q2) ==
    << q1[4] * q2[1] + q1[1] * q2[4] + q1[2] * q2[3] - q1[3] * q2[2],
       q1[4] * q2[2] + q1[2] * q2[4] + q1[3] * q2[1] - q1[1] * q2[3],
       q1[4] * q2[3] + q1[3] * q2[4] + q1[1] * q2[2] - q1[2] * q2[1],
       q1[4] * q2[4] - q1[1] * q2[1] - q1[2] * q2[2] - q1[3] * q2[3] >>
Quaternion_conjugate(q) == <<-q[1], -q[2], -q[3], q[4]>>
Quaternion_mul_float(self, other) ==
    <<other * self[1], other * self[2], other * self[3], other * self[4]>>
Quaternion_rmul(self, other) ==
    <<other * self[1], other * self[2], other * self[3], other * self[4]>>

\* The bound methods: the lambda behind pybind11's argument loading, in the
\* parameter order of the lambda.
Vec3___mul__(x, y) ==
    IF Loads("Vec3", x) /\ Loads("float", y)
    THEN Value(PyVec3(Vec3_mul(x[2], y[2]))) ELSE NotImplemented
Vec3___rmul__(x, y) ==
    IF Loads("float", x) /\ Loads("Vec3", y)
    THEN Value(PyVec3(Vec3_rmul(x[2], y[2]))) ELSE NotImplemented
Vec2___mul__(x, y) ==
    IF Loads("Vec2", x) /\ Loads("float", y)
    THEN Value(PyVec2(Vec2_mul(x[2], y[2]))) ELSE NotImplemented
Vec2___rmul__(x, y) ==
    IF Loads("float", x) /\ Loads("Vec2", y)
    THEN Value(PyVec2(Vec2_rmul(x[2], y[2]))) ELSE NotImplemented
\* __mul__ of Quaternion has two overloads, tried in the order bound.
Quaternion___mul__(x, y) ==
    IF Loads("Quaternion", x) /\ Loads("Quaternion", y)
    THEN Value(PyQuaternion(Quaternion_mul(x[2], y[2])))
    ELSE IF Loads("Quaternion", x) /\ Loads("float", y)
    THEN Value(PyQuaternion(Quaternion_mul_float(x[2], y[2])))
    ELSE NotImplemented
Quaternion___rmul__(x, y) ==
    IF Loads("Quaternion", x) /\ Loads("float", y)
    THEN Value(PyQuaternion(Quaternion_rmul(x[2], y[2]))) ELSE NotImplemented

\* type(x).__mul__(x, y) and type(y).__rmul__(y, x) as the host looks them
\* up; a float knows no product with the bound classes.
TypeMul(x, y) ==
    CASE x[1] = "Vec3" -> Vec3___mul__(x, y)
      [] x[1] = "Vec2" -> Vec2___mul__(x, y)
      [] x[1] = "Quaternion" -> Quaternion___mul__(x, y)
      [] OTHER -> NotImplemented
TypeRMul(y, x) ==
    CASE y[1] = "Vec3" -> Vec3___rmul__(y, x)
      [] y[1] = "Vec2" -> Vec2___rmul__(y, x)
      [] y[1] = "Quaternion" -> Quaternion___rmul__(y, x)
      [] OTHER -> NotImplemented

\* The host's x * y: the left operand's __mul__, then the right operand's
\* __rmul__ with the operands swapped, then TypeError.
PyMul(x, y) ==
    IF TypeMul(x, y) # NotImplemented THEN TypeMul(x, y)
    ELSE IF TypeRMul(y, x) # NotImplemented THEN TypeRMul(y, x)
    ELSE Raise("TypeError")

Vectors3 == {PyVec3(<<x, y, z>>) : x, y, z \in Components}
Vectors2 == {PyVec2(<<x, y>>) : x, y \in Components}
ScaledQuaternions == {PyQuaternion(<<x, y, 0, w>>) : x, y, w \in Components}
Scalars == {PyFloat(a) : a \in Components}

\* v * a
VectorTimesScalar ==
    \E v \in Vectors3 \cup Vectors2, a \in Scalars :
        Evaluate("*", <<v, a>>, PyMul(v, a))
\* a * v
ScalarTimesVector ==
    \E a \in Scalars, v \in Vectors3 \cup Vectors2 \cup ScaledQuaternions :
        Evaluate("*", <<a, v>>, PyMul(a, v))

NextScale == VectorTimesScalar \/ ScalarTimesVector

SpecScale == Init /\ [][NextScale]_vars

Rescaled(a, v) == [i \in 1 .. Len(v) |-> a * v[i]]
IsVector(x) == x[1] \in {"Vec3", "Vec2"}

\* C14: for every Vec3 or Vec2 v and scalar a, both v * a and a * v succeed
\* and yield the vector whose components are a times those of v, and no
\* object of the host is changed.
C14_ScaleBothSides ==
    /\ (call.fn = "*" /\ IsVector(call.args[1])) =>
           /\ ret = Value(<<call.args[1][1], Rescaled(call.args[2][2], call.args[1][2])>>)
           /\ heap = before
    /\ (call.fn = "*" /\ IsVector(call.args[2])) =>
           /\ ret = Value(<<call.args[2][1], Rescaled(call.args[1][2], call.args[2][2])>>)
           /\ heap = before

\* What the bindings do: v * a is the rescaled vector, a * v raises
\* TypeError for Vec3 and Vec2, while a * q is the rescaled Quaternion.
C14_ScaleFromTheRight ==
    /\ (call.fn = "*" /\ IsVector(call.args[1])) =>
           ret = Value(<<call.args[1][1], Rescaled(call.args[2][2], call.args[1][2])>>)
    /\ (call.fn = "*" /\ IsVector(call.args[2])) =>
           ret = Raise("TypeError")
    /\ (call.fn = "*" /\ call.args[2][1] = "Quaternion") =>
           ret = Value(PyQuaternion(Rescaled(call.args[1][2], call.args[2][2])))
    /\ call.fn = "*" => heap = before

\* ------------------------------------------ Quaternion product (C15)
\* Quaternion(x, y, z, w)
Quaternions == {<<x, y, z, w>> : x, y, z, w \in Components}

\* The host holds two Quaternion objects it has constructed.
InitQuaternion ==
    /\ call = NoCall
    /\ nativeCalls = <<>>
    /\ ret = "None"
    /\ heap \in {[DefaultHeap EXCEPT !["q1"] = a, !["q2"] = b] : a, b \in Quaternions}
    /\ before = heap
    /\ registry = [active |-> 0, passive |-> 0]
    /\ registryBefore = registry

\* a * b on two Quaternion objects of the host
Quaternion_Times(a, b) ==
    Evaluate("Quaternion *", <<a, b>>,
             PyMul(PyQuaternion(heap[a]), PyQuaternion(heap[b])))

\* a * a.conjugate()
Quaternion_TimesConjugate(a) ==
    Evaluate("Quaternion * conjugate", <<a>>,
             PyMul(PyQuaternion(heap[a]), PyQuaternion(Quaternion_conjugate(heap[a]))))

NextQuaternion ==
    \/ Quaternion_Times("q1", "q2")
    \/ Quaternion_TimesConjugate("q1")

SpecQuaternion == InitQuaternion /\ [][NextQuaternion]_vars

\* The reference: Hamilton's rules on the basis (i, j, k, 1), numbered as the
\* components (x, y, z, w): BasisProduct[a][b] is <<sign, c>> with
\* e_a e_b = sign e_c.
BasisProduct ==
    << << <<-1, 4>>, << 1, 3>>, <<-1, 2>>, <<1, 1>> >>,
       << <<-1, 3>>, <<-1, 4>>, << 1, 1>>, <<1, 2>> >>,
       << << 1, 2>>, <<-1, 1>>, <<-1, 4>>, <<1, 3>> >>,
       << << 1, 1>>, << 1, 2>>, << 1, 3>>, <<1, 4>> >> >>
RECURSIVE Sum(_)
Sum(xs) == IF xs = <<>> THEN 0 ELSE Head(xs) + Sum(Tail(xs))
HamiltonTerm(p, q, c, n) ==
    IF BasisProduct[1 + (n \div 4)][1 + (n % 4)][2] = c
    THEN BasisProduct[1 + (n \div 4)][1 + (n % 4)][1] * p[1 + (n \div 4)] * q[1 + (n % 4)]
    ELSE 0
Hamilton(p, q) ==
    [c \in 1 .. 4 |-> Sum([n \in 1 .. 16 |-> HamiltonTerm(p, q, c, n - 1)])]

\* The third operands associativity is tried with.
Thirds == {<<x, y, z, w>> : x, y, z, w \in {-1, 0, 1}}
Norm2(q) == q[1] * q[1] + q[2] * q[2] + q[3] * q[3] + q[4] * q[4]

\* C15: Quaternion * Quaternion returns the Hamilton product in (x, y, z, w)
\* order; Quaternion() is a two-sided identity; the product is associative;
\* q * q.conjugate() has x = y = z = 0 and w = x*x + y*y + z*z + w*w of q.
C15_HamiltonProduct ==
    /\ call.fn = "Quaternion *" =>
           /\ ret = Value(PyQuaternion(Hamilton(heap["q1"], heap["q2"])))
           /\ heap["q2"] = default_Quaternion => ret[2][2] = heap["q1"]
           /\ heap["q1"] = default_Quaternion => ret[2][2] = heap["q2"]
           /\ \A t \in Thirds :
                  Quaternion_mul(ret[2][2], t)
                      = Quaternion_mul(heap["q1"], Quaternion_mul(heap["q2"], t))
           /\ heap = before
    /\ call.fn = "Quaternion * conjugate" =>
           ret = Value(PyQuaternion(<<0, 0, 0, Norm2(heap["q1"])>>))

\* i * j = k was computed, and j * i would be -k.
C15_Witness ==
    /\ call.fn = "Quaternion *"
    /\ heap["q1"] = <<1, 0, 0, 0>>
    /\ heap["q2"] = <<0, 1, 0, 0>>
    /\ ret = Value(PyQuaternion(<<0, 0, 1, 0>>))
    /\ Quaternion_mul(heap["q2"], heap["q1"]) = <<0, 0, -1, 0>>

C15_WitnessConjugate ==
    /\ call.fn = "Quaternion * conjugate"
    /\ heap["q1"] = <<1, -1, 1, 1>>
    /\ ret = Value(PyQuaternion(<<0, 0, 0, 4>>))

\* ------------------------------------------------ buffer views (C16)
BufferTypes == {"Quaternion", "Vec3", "Vec2", "Vec2i", "Matrix44", "EyeShape"}

\* sizeof(float) and sizeof(int)
SizeofElem == 4

\* The fields of the one-dimensional structs, in declaration order.
Fields(type) ==
    CASE type = "Quaternion" -> <<"x", "y", "z", "w">>
      [] type = "Vec3" -> <<"x", "y", "z">>
      [] type = "Vec2" -> <<"x", "y">>
      [] type = "Vec2i" -> <<"x", "y">>
\* float mat[4][4] of Fove_Matrix44; Fove_Vec2 outline[12] of Fove_EyeShape.
MatRows == 4
MatCols == 4
OutlineCount == 12
Is2D(type) == type \in {"Matrix44", "EyeShape"}

\* assert_layout: a standard-layout struct of Size elements and no more, so
\* the k-th field lies k elements into the object.
Sizeof(type) ==
    CASE type = "Matrix44" -> MatRows * MatCols * SizeofElem
      [] type = "EyeShape" -> OutlineCount * (Len(Fields("Vec2")) * SizeofElem)
      [] OTHER -> Len(Fields(type)) * SizeofElem

\* The elements of an object as the host names them: a field name, <<r, c>>
\* for mat[r][c], <<i, k>> for the k-th field of outline[i].
Elements(type) ==
    CASE type = "Matrix44" -> (0 .. MatRows - 1) \X (0 .. MatCols - 1)
      [] type = "EyeShape" -> (0 .. OutlineCount - 1) \X (0 .. Len(Fields("Vec2")) - 1)
      [] OTHER -> {Fields(type)[k] : k \in 1 .. Len(Fields(type))}

\* offsetof the element within the object, by the C++ layout rules.
FieldOffset(type, f) ==
    CASE type = "Matrix44" -> (f[1] * MatCols + f[2]) * SizeofElem
      [] type = "EyeShape" -> f[1] * Sizeof("Vec2") + f[2] * SizeofElem
      [] OTHER -> (CHOOSE k \in 1 .. Len(Fields(type)) : Fields(type)[k] = f) * SizeofElem
                      - SizeofElem

\* py::buffer_info as the def_buffer lambdas build it; ptr is the offset of
\* the first element within the object.
define_1D_buffer_protocol(Size) ==
    [ptr |-> 0, itemsize |-> SizeofElem, ndim |-> 1,
     shape |-> <<Size>>, strides |-> <<SizeofElem>>]
define_2D_buffer_protocol_Transposed(Rows, Cols) ==
    [ptr |-> 0, itemsize |-> SizeofElem, ndim |-> 2,
     shape |-> <<Rows, Cols>>, strides |-> <<SizeofElem, SizeofElem * Cols>>]
define_2D_buffer_protocol(Rows, Cols) ==
    [ptr |-> 0, itemsize |-> SizeofElem, ndim |-> 2,
     shape |-> <<Rows, Cols>>, strides |-> <<SizeofElem * Cols, SizeofElem>>]
EyeShape_buffer ==
    [ptr |-> FieldOffset("EyeShape", <<0, 0>>), itemsize |-> SizeofElem, ndim |-> 2,
     shape |-> <<12, 2>>, strides |-> <<SizeofElem * 2, SizeofElem>>]

buffer_info(type) ==
    CASE type = "Matrix44" -> define_2D_buffer_protocol(MatRows, MatCols)
      [] type = "EyeShape" -> EyeShape_buffer
      [] OTHER -> define_1D_buffer_protocol(Len(Fields(type)))

\* The indices of a view and the byte each one addresses.
Indices(info) ==
    IF info.ndim = 1 THEN {<<i>> : i \in 0 .. info.shape[1] - 1}
    ELSE (0 .. info.shape[1] - 1) \X (0 .. info.shape[2] - 1)
ViewOffset(info, index) ==
    info.ptr + Sum([k \in 1 .. info.ndim |-> index[k] * info.strides[k]])

\* The element the claim pairs with a view index.
ElementAt(type, index) ==
    IF Is2D(type) THEN index ELSE Fields(type)[index[1] + 1]

\* An object's storage: the value of the element at each offset.
Offsets(type) == {k * SizeofElem : k \in 0 .. (Sizeof(type) \div SizeofElem) - 1}
ZeroMemory(type) == [off \in Offsets(type) |-> 0]
\* The value the host stores to mark an element of a zeroed object.
Marker == {1}
Marks(mem) == Cardinality({off \in DOMAIN mem : mem[off] # 0})

\* A store of `value` at byte `off` of the object: into its storage, or
\* outside of it.
Store(obj, off, value) ==
    IF off \in DOMAIN obj.mem
    THEN [obj EXCEPT !.mem[off] = value]
    ELSE [obj EXCEPT !.outside = TRUE]

\* The host holds one freshly constructed object of a buffer class.
InitBuffer ==
    /\ call = NoCall
    /\ nativeCalls = <<>>
    /\ ret = "None"
    /\ heap \in {[DefaultHeap EXCEPT !["buffer"] =
                     [type |-> t, mem |-> ZeroMemory(t), outside |-> FALSE]] :
                 t \in BufferTypes}
    /\ before = heap
    /\ registry = [active |-> 0, passive |-> 0]
    /\ registryBefore = registry

\* numpy.array(obj, copy=False)[index] = value
ViewWrite(self) ==
    \E index \in Indices(buffer_info(heap[self].type)), value \in Marker :
        /\ Marks(heap[self].mem) < MaxMarks
        /\ call' = [fn |-> "view write", args |-> <<index, value>>]
        /\ nativeCalls' = <<>>
        /\ ret' = Value("None")
        /\ heap' = [heap EXCEPT ![self] =
                       Store(@, ViewOffset(buffer_info(@.type), index), value)]
        /\ Snapshot /\ UNCHANGED registry

\* obj.x = value, or a store by the native library into mat[r][c], outline[i]
FieldWrite(self) ==
    \E f \in Elements(heap[self].type), value \in Marker :
        /\ Marks(heap[self].mem) < MaxMarks
        /\ call' = [fn |-> "field write", args |-> <<f, value>>]
        /\ nativeCalls' = <<>>
        /\ ret' = Value("None")
        /\ heap' = [heap EXCEPT ![self] = Store(@, FieldOffset(@.type, f), value)]
        /\ Snapshot /\ UNCHANGED registry

NextBuffer == ViewWrite("buffer") \/ FieldWrite("buffer")

SpecBuffer == InitBuffer /\ [][NextBuffer]_vars

ViewOf(obj) == buffer_info(obj.type)
FlatOffset(type, index) ==
    IF Is2D(type)
    THEN (index[1] * ViewOf([type |-> type]).shape[2] + index[2]) * SizeofElem
    ELSE index[1] * SizeofElem

\* C16: the view of each buffer class addresses exactly the object's own
\* storage: index (r, c) lies at (r * Cols + c) * sizeof(element), index i at
\* i * sizeof(element) in field order; the offsets are distinct, inside the
\* object and cover every element once; a write through the view is a write
\* to the corresponding field and to nothing else.
C16_BufferViews ==
    LET obj == heap["buffer"]
        was == before["buffer"]
        info == ViewOf(obj)
    IN  /\ \A index \in Indices(info) :
               /\ ViewOffset(info, index) = FlatOffset(obj.type, index)
               /\ ViewOffset(info, index) = FieldOffset(obj.type, ElementAt(obj.type, index))
               /\ ViewOffset(info, index) >= 0
               /\ ViewOffset(info, index) + info.itemsize <= Sizeof(obj.type)
        /\ Cardinality({ViewOffset(info, index) : index \in Indices(info)})
               = Cardinality(Indices(info))
        /\ {ViewOffset(info, index) : index \in Indices(info)} = Offsets(obj.type)
        /\ {ElementAt(obj.type, index) : index \in Indices(info)} = Elements(obj.type)
        /\ ~obj.outside
        /\ call.fn = "view write" =>
               obj = Store(was, FieldOffset(was.type, ElementAt(was.type, call.args[1])),
                           call.args[2])
        /\ call.fn = "field write" =>
               \E index \in Indices(info) :
                   /\ ElementAt(obj.type, index) = call.args[1]
                   /\ obj.mem[ViewOffset(info, index)] = call.args[2]
                   /\ \A other \in Indices(info) \ {index} :
                          obj.mem[ViewOffset(info, other)] = was.mem[ViewOffset(info, other)]

\* A write through the view of a Matrix44 at (1, 2) is seen in mat[1][2],
\* which is not where (2, 1) lies.
C16_Witness ==
    /\ call.fn = "view write"
    /\ call.args = <<<<1, 2>>, 1>>
    /\ heap["buffer"].type = "Matrix44"
    /\ heap["buffer"].mem[FieldOffset("Matrix44", <<1, 2>>)] = 1
    /\ before["buffer"].mem[FieldOffset("Matrix44", <<1, 2>>)] = 0
    /\ FieldOffset("Matrix44", <<2, 1>>) # FieldOffset("Matrix44", <<1, 2>>)

C16_WitnessEyeShape ==
    /\ call.fn = "field write"
    /\ heap["buffer"].type = "EyeShape"
    /\ call.args = <<<<11, 1>>, 1>>
    /\ heap["buffer"].mem[ViewOffset(EyeShape_buffer, <<11, 1>>)] = 1

====
